---- MODULE Spec2Model ----
(***************************************************************************)
(* Strategy/signal engine and backtesting simulator of the crypto trading  *)
(* dashboard.  Each strategy's generate_signals is a scan over the bar     *)
(* series; Backtester.run replays a signal list against the bars.          *)
(*                                                                         *)
(* Bars are indexed 1..Len(bars); a bar's timestamp is its index.          *)
(* Real-valued quantities are kept exact: indicator comparisons are        *)
(* cross-multiplied into integer comparisons, and the backtester's         *)
(* capital / size / pnl are rationals <<numerator, denominator>> in        *)
(* lowest terms.  Floating-point rounding is not modelled.                 *)
(***************************************************************************)
EXTENDS Integers, Sequences, FiniteSets, TLC

VARIABLES
    pc,               \* position of the running call
    bars,             \* the input DataFrame: sequence of [high, low, close]
    params,           \* the strategy instance's parameters
    i,                \* index of the bar (row) the scan is at
    signals,          \* the signal list being built / handed to the backtester
    position_open,    \* strategy-local position flag
    stop_loss,        \* Bollinger strategy's stop level
    initial_capital,  \* Backtester.initial_capital
    capital,          \* Backtester.run local: idle cash
    position,         \* Backtester.run local: units held (0 when flat)
    entry_price,      \* Backtester.run local
    current_signals,  \* Backtester.run local: signals left to apply at bar i
    trades,           \* Backtester.trades
    portfolio_value,  \* Backtester.portfolio_value
    runs,             \* number of run() calls started on the instance
    base,             \* lengths of the two logs when the current run started
    returned          \* what the completed calls returned or raised, in call order

vars == <<pc, bars, params, i, signals, position_open, stop_loss,
          initial_capital, capital, position, entry_price, current_signals,
          trades, portfolio_value, runs, base, returned>>

btVars == <<initial_capital, capital, position, entry_price,
            current_signals, trades, portfolio_value, runs, base>>

stratVars == <<btVars, returned>>

(***************************************************************************)
(* Bounds of the model.                                                    *)
(***************************************************************************)
MaxBars == 5
MaxWindow == 3
MaxPrice == 3

Prices == 1..MaxPrice

RECURSIVE SeqsUpTo(_, _)
SeqsUpTo(S, n) ==
    IF n = 0 THEN {<<>>}
    ELSE LET prev == SeqsUpTo(S, n - 1)
         IN  prev \cup {Append(s, x) : s \in {t \in prev : Len(t) = n - 1}, x \in S}

\* A bar whose high, low and close coincide.
FlatBar(c) == [high |-> c, low |-> c, close |-> c]

CloseOnlySeries == {[k \in 1..Len(cs) |-> FlatBar(cs[k])] : cs \in SeqsUpTo(Prices, MaxBars)}

\* The Bollinger scan's stop_loss: None, NaN (an undefined ATR) or a level.
NoStop == [kind |-> "None", v |-> <<0, 1>>]
NaNStop == [kind |-> "NaN", v |-> <<0, 1>>]
StopAt(r) == [kind |-> "num", v |-> r]

(***************************************************************************)
(* Exact rationals <<n, d>>, d > 0, in lowest terms.                       *)
(***************************************************************************)
Abs(x) == IF x < 0 THEN -x ELSE x

RECURSIVE GCD(_, _)
GCD(a, b) == IF b = 0 THEN a ELSE GCD(b, a % b)

Norm(n, d) ==
    LET g == GCD(Abs(n), Abs(d))
        s == IF d < 0 THEN -1 ELSE 1
    IN  <<s * (n \div g), s * (d \div g)>>

R(n) == <<n, 1>>
RMul(a, b) == Norm(a[1] * b[1], a[2] * b[2])
RDiv(a, b) == Norm(a[1] * b[2], a[2] * b[1])
\* Sums over the least common denominator, which keeps the intermediate values small.
RAdd(a, b) ==
    LET g == GCD(a[2], b[2])
    IN  Norm(a[1] * (b[2] \div g) + b[1] * (a[2] \div g), (a[2] \div g) * b[2])
RNeg(a) == <<-a[1], a[2]>>
RSub(a, b) == RAdd(a, RNeg(b))
RLt(a, b) == a[1] * b[2] < b[1] * a[2]
RZero == <<0, 1>>

(***************************************************************************)
(* Rolling windows (pandas rolling(window=w)): the value at row k is       *)
(* defined once w rows are available, i.e. for k >= w.                     *)
(***************************************************************************)
Close(k) == bars[k].close

RECURSIVE SumClose(_, _)
SumClose(a, b) == IF a > b THEN 0 ELSE Close(b) + SumClose(a, b - 1)

RollingDefined(w, k) == k >= w
RollingSum(w, k) == SumClose(k - w + 1, k)

(***************************************************************************)
(* MACrossoverStrategy                                                     *)
(***************************************************************************)
\* SMA_short > SMA_long at row k; a comparison with NaN is False.
\* sum_s / sw > sum_l / lw  <=>  sum_s * lw > sum_l * sw.
MAShortAbove(k) ==
    /\ RollingDefined(params.short_window, k)
    /\ RollingDefined(params.long_window, k)
    /\ RollingSum(params.short_window, k) * params.long_window
         > RollingSum(params.long_window, k) * params.short_window

MAShortBelow(k) ==
    /\ RollingDefined(params.short_window, k)
    /\ RollingDefined(params.long_window, k)
    /\ RollingSum(params.short_window, k) * params.long_window
         < RollingSum(params.long_window, k) * params.short_window

\* df['signal']: 0, then 1 where short > long, then -1 where short < long.
MASignal(k) == IF MAShortBelow(k) THEN -1 ELSE IF MAShortAbove(k) THEN 1 ELSE 0

\* Series.diff(): NaN in the first row, the difference to the previous row after.
Diff(k, cur, prev) ==
    IF k = 1 THEN [nan |-> TRUE, v |-> 0] ELSE [nan |-> FALSE, v |-> cur - prev]

\* x != 0 on a float column: NaN != 0 is True.
NotEqualZero(x) == x.nan \/ x.v # 0

MASignalChange(k) == Diff(k, MASignal(k), MASignal(k - 1))

\* A row of df[df['signal_change'] != 0].
MASelected(k) == NotEqualZero(MASignalChange(k))

ActionOf(sig) == IF sig = 1 THEN "BUY" ELSE "SELL"

MARowSignal(k) ==
    [timestamp |-> k, price |-> Close(k), action |-> ActionOf(MASignal(k))]

\* No Backtester takes part in a strategy's scan.
IdleBacktester ==
    /\ initial_capital = 0
    /\ capital = RZero
    /\ position = RZero
    /\ entry_price = 0
    /\ current_signals = <<>>
    /\ trades = <<>>
    /\ portfolio_value = <<>>
    /\ runs = 0
    /\ base = <<0, 0>>
    /\ returned = <<>>

InitMA ==
    /\ pc = "scan"
    /\ bars \in CloseOnlySeries
    /\ params \in [short_window : 1..MaxWindow, long_window : 1..MaxWindow]
    /\ i = 1
    /\ signals = <<>>
    /\ position_open = FALSE
    /\ stop_loss = NoStop
    /\ IdleBacktester

\* One row of the loop over the rows of the frame: selected rows append a signal.
MARow ==
    /\ pc = "scan"
    /\ i <= Len(bars)
    /\ signals' = IF MASelected(i) THEN Append(signals, MARowSignal(i)) ELSE signals
    /\ i' = i + 1
    /\ UNCHANGED <<pc, bars, params, position_open, stop_loss>>
    /\ UNCHANGED stratVars

\* return signals
ScanReturn ==
    /\ pc = "scan"
    /\ i > Len(bars)
    /\ pc' = "done"
    /\ returned' = Append(returned, signals)
    /\ UNCHANGED <<bars, params, i, signals, position_open, stop_loss>>
    /\ UNCHANGED btVars

NextMA == MARow \/ ScanReturn

SpecMA == InitMA /\ [][NextMA]_vars

(***************************************************************************)
(* RSIStrategy                                                             *)
(***************************************************************************)
RSIDefaultOverbought == 70
RSIDefaultOversold == 30

\* delta = close.diff(); delta.where(delta > 0, 0): the first row's NaN fails the
\* test and becomes 0, so the column has no NaN.
GainAt(k) == IF k > 1 /\ Close(k) - Close(k - 1) > 0 THEN Close(k) - Close(k - 1) ELSE 0

\* -delta.where(delta < 0, 0)
LossAt(k) == IF k > 1 /\ Close(k) - Close(k - 1) < 0 THEN Close(k - 1) - Close(k) ELSE 0

RECURSIVE SumGain(_, _)
SumGain(a, b) == IF a > b THEN 0 ELSE GainAt(b) + SumGain(a, b - 1)

RECURSIVE SumLoss(_, _)
SumLoss(a, b) == IF a > b THEN 0 ELSE LossAt(b) + SumLoss(a, b - 1)

\* Window sums of gain and loss; the rolling means are these over period.
GainSum(k) == SumGain(k - params.period + 1, k)
LossSum(k) == SumLoss(k - params.period + 1, k)

\* 100 - 100 / (1 + gain / loss) is NaN before the window is full and when gain
\* and loss are both 0 (0 / 0); with loss = 0 < gain it is 100 (1 + inf); otherwise
\* it equals 100 * gain / (gain + loss).
RSIIsNaN(k) == ~RollingDefined(params.period, k) \/ GainSum(k) + LossSum(k) = 0

\* RSI < level and RSI > level, cross-multiplied; False on NaN.
RSIBelow(k, level) == ~RSIIsNaN(k) /\ 100 * GainSum(k) < level * (GainSum(k) + LossSum(k))
RSIAbove(k, level) == ~RSIIsNaN(k) /\ 100 * GainSum(k) > level * (GainSum(k) + LossSum(k))

\* df['signal']: 0, then 1 where RSI < oversold, then -1 where RSI > overbought.
RSISignal(k) ==
    IF RSIAbove(k, params.overbought) THEN -1
    ELSE IF RSIBelow(k, params.oversold) THEN 1 ELSE 0

RSISignalChange(k) == Diff(k, RSISignal(k), RSISignal(k - 1))

RSISelected(k) == NotEqualZero(RSISignalChange(k))

RSIRowSignal(k) ==
    [timestamp |-> k, price |-> Close(k), action |-> ActionOf(RSISignal(k))]

InitRSI ==
    /\ pc = "scan"
    /\ bars \in CloseOnlySeries
    /\ params \in [period : 1..MaxWindow,
                   overbought : {RSIDefaultOverbought, 50},
                   oversold : {RSIDefaultOversold, 50}]
    /\ i = 1
    /\ signals = <<>>
    /\ position_open = FALSE
    /\ stop_loss = NoStop
    /\ IdleBacktester

RSIRow ==
    /\ pc = "scan"
    /\ i <= Len(bars)
    /\ signals' = IF RSISelected(i) THEN Append(signals, RSIRowSignal(i)) ELSE signals
    /\ i' = i + 1
    /\ UNCHANGED <<pc, bars, params, position_open, stop_loss>>
    /\ UNCHANGED stratVars

NextRSI == RSIRow \/ ScanReturn

SpecRSI == InitRSI /\ [][NextRSI]_vars

(***************************************************************************)
(* BollingerBandsStrategy                                                  *)
(***************************************************************************)
BBMaxBars == 5

\* Close prices of the Bollinger and MACD series.
ScanPrices == {1, 2, 3}

\* Bars with high = close + s and low = close - s for one spread s per series.
SpreadSeries ==
    {[k \in 1..Len(cs) |-> [high |-> cs[k] + s, low |-> cs[k] - s, close |-> cs[k]]] :
        cs \in SeqsUpTo(ScanPrices, BBMaxBars), s \in {0, 1}}

\* Multipliers std_dev and atr_multiplier, as rationals.
Multipliers == {<<1, 2>>, <<1, 1>>}

\* validate_parameters: integer positive periods, positive multipliers.
BBValid(p) ==
    /\ p.period \in Int /\ p.atr_period \in Int
    /\ p.period > 0 /\ p.atr_period > 0
    /\ RLt(RZero, p.std_dev) /\ RLt(RZero, p.atr_multiplier)

RECURSIVE SumSquareClose(_, _)
SumSquareClose(a, b) == IF a > b THEN 0 ELSE Close(b) * Close(b) + SumSquareClose(a, b - 1)

\* Window sum S and sum of squares Q of close over the last period rows.
BBSum(k) == SumClose(k - params.period + 1, k)
BBSumSq(k) == SumSquareClose(k - params.period + 1, k)

\* rolling(period).std() is the sample deviation (ddof = 1): NaN for a window of
\* one row.  pd.isna(Upper) or pd.isna(Lower).
BandsNaN(k) == ~RollingDefined(params.period, k) \/ params.period < 2

\* n * (n - 1) * n * variance = n * (n * Q - S^2), scaled by std_dev^2.
BBScaledVar(k) ==
    params.std_dev[1] * params.std_dev[1] * params.period
        * (params.period * BBSumSq(k) - BBSum(k) * BBSum(k))

\* close < SMA - std_dev * STD  <=>  S - n * close > 0 and
\* (S - n * close)^2 * (n - 1) * kd^2 > kn^2 * n * (n * Q - S^2).
BelowLower(k) ==
    LET d == BBSum(k) - params.period * Close(k)
    IN  /\ d > 0
        /\ d * d * (params.period - 1) * params.std_dev[2] * params.std_dev[2]
             > BBScaledVar(k)

\* close > SMA + std_dev * STD
AboveUpper(k) ==
    LET d == params.period * Close(k) - BBSum(k)
    IN  /\ d > 0
        /\ d * d * (params.period - 1) * params.std_dev[2] * params.std_dev[2]
             > BBScaledVar(k)

\* calculate_atr: the row-wise max skips the NaN of the shifted close in row 1.
Max2(a, b) == IF a > b THEN a ELSE b

TrueRange(k) ==
    IF k = 1 THEN bars[k].high - bars[k].low
    ELSE Max2(bars[k].high - bars[k].low,
              Max2(Abs(bars[k].high - Close(k - 1)), Abs(bars[k].low - Close(k - 1))))

RECURSIVE SumTrueRange(_, _)
SumTrueRange(a, b) == IF a > b THEN 0 ELSE TrueRange(b) + SumTrueRange(a, b - 1)

ATRDefined(k) == RollingDefined(params.atr_period, k)
ATR(k) == Norm(SumTrueRange(k - params.atr_period + 1, k), params.atr_period)

\* stop_loss = current_price - ATR * atr_multiplier if use_atr_exits else None
StopLossAtEntry_ZeroATR(k) ==
    IF ~params.use_atr_exits THEN NoStop
    ELSE IF ~ATRDefined(k) THEN StopAt(R(Close(k)))
    ELSE StopAt(RSub(R(Close(k)), RMul(ATR(k), params.atr_multiplier)))

StopLossAtEntry(k) ==
    IF ~params.use_atr_exits THEN NoStop
    ELSE IF ~ATRDefined(k) THEN NaNStop
    ELSE StopAt(RSub(R(Close(k)), RMul(ATR(k), params.atr_multiplier)))

\* use_atr_exits and stop_loss is not None and current_price < stop_loss
StopLossHit(k) ==
    /\ params.use_atr_exits
    /\ stop_loss.kind # "None"
    /\ stop_loss.kind = "num" /\ RLt(R(Close(k)), stop_loss.v)

\* The branch taken at a row with defined bands: "if not position_open".
BBFlatBranch_AlwaysEntry == TRUE
BBFlatBranch == ~position_open

\* The exit's reason, upper band first.
BBExitReason_StopOnly(k) == IF StopLossHit(k) THEN "Stop Loss" ELSE ""

BBExitReason(k) ==
    IF AboveUpper(k) THEN "Upper Band" ELSE IF StopLossHit(k) THEN "Stop Loss" ELSE ""

BBBuy(k) ==
    [timestamp |-> k, price |-> Close(k), action |-> "BUY", indicator |-> "BB Lower"]

BBSell(k) ==
    [timestamp |-> k, price |-> Close(k), action |-> "SELL", indicator |-> BBExitReason(k)]

InitBB ==
    /\ pc = "scan"
    /\ bars \in SpreadSeries
    /\ params \in [period : 1..MaxWindow, std_dev : Multipliers, use_atr_exits : BOOLEAN,
                   atr_period : 1..MaxWindow, atr_multiplier : Multipliers]
    /\ BBValid(params)
    /\ i = 1
    /\ signals = <<>>
    /\ position_open = FALSE
    /\ stop_loss = NoStop
    /\ IdleBacktester

\* One iteration of "for i in range(len(df))".
BBRow ==
    /\ pc = "scan"
    /\ i <= Len(bars)
    /\ IF BandsNaN(i)
         THEN UNCHANGED <<signals, position_open, stop_loss>>
       ELSE IF BBFlatBranch
         THEN IF BelowLower(i)
                THEN /\ stop_loss' = StopLossAtEntry(i)
                     /\ signals' = Append(signals, BBBuy(i))
                     /\ position_open' = TRUE
                ELSE UNCHANGED <<signals, position_open, stop_loss>>
       ELSE IF BBExitReason(i) # ""
         THEN /\ signals' = Append(signals, BBSell(i))
              /\ position_open' = FALSE
              /\ stop_loss' = NoStop
       ELSE UNCHANGED <<signals, position_open, stop_loss>>
    /\ i' = i + 1
    /\ UNCHANGED <<pc, bars, params>>
    /\ UNCHANGED stratVars

NextBB == BBRow \/ ScanReturn

SpecBB == InitBB /\ [][NextBB]_vars

(***************************************************************************)
(* MACDStrategy                                                            *)
(***************************************************************************)
MACDMaxBars == 5

\* Spans of the three exponential averages, and histogram thresholds.
MACDSpans == {1, 2, 3}
MACDThresholds == {<<0, 1>>, <<1, 4>>, <<-1, 4>>}

MACDSeries ==
    {[k \in 1..Len(cs) |-> FlatBar(cs[k])] : cs \in SeqsUpTo(ScanPrices, MACDMaxBars)}

\* validate_parameters: integer positive periods with fast < slow; the threshold
\* is a number.
MACDValid(p) ==
    /\ p.fast_period \in Int /\ p.slow_period \in Int /\ p.signal_period \in Int
    /\ p.fast_period > 0 /\ p.slow_period > 0 /\ p.signal_period > 0
    /\ p.fast_period < p.slow_period

\* ewm(span, adjust=False).mean(): y[1] = x[1], y[k] = (1 - a) * y[k-1] + a * x[k]
\* with a = 2 / (span + 1).
Alpha(span) == Norm(2, span + 1)

RECURSIVE EMAClose(_, _)
EMAClose(span, k) ==
    IF k = 1 THEN R(Close(1))
    ELSE RAdd(RMul(RSub(R(1), Alpha(span)), EMAClose(span, k - 1)),
              RMul(Alpha(span), R(Close(k))))

MACDLine(k) == RSub(EMAClose(params.fast_period, k), EMAClose(params.slow_period, k))

RECURSIVE SignalLine(_)
SignalLine(k) ==
    IF k = 1 THEN MACDLine(1)
    ELSE RAdd(RMul(RSub(R(1), Alpha(params.signal_period)), SignalLine(k - 1)),
              RMul(Alpha(params.signal_period), MACDLine(k)))

Histogram(k) == RSub(MACDLine(k), SignalLine(k))

RLe(a, b) == ~RLt(b, a)

\* prev_hist < -threshold and curr_hist >= -threshold and MACD > Signal
MACDBullish_NoLineCheck(k) ==
    /\ RLt(Histogram(k - 1), RNeg(params.histogram_threshold))
    /\ RLe(RNeg(params.histogram_threshold), Histogram(k))

MACDBullish(k) ==
    /\ RLt(Histogram(k - 1), RNeg(params.histogram_threshold))
    /\ RLe(RNeg(params.histogram_threshold), Histogram(k))
    /\ RLt(SignalLine(k), MACDLine(k))

\* prev_hist > threshold and curr_hist <= threshold and MACD < Signal
MACDBearish(k) ==
    /\ RLt(params.histogram_threshold, Histogram(k - 1))
    /\ RLe(Histogram(k), params.histogram_threshold)
    /\ RLt(MACDLine(k), SignalLine(k))

\* The branch taken at a row: "if not position_open".
MACDFlatBranch_AlwaysEntry == TRUE
MACDFlatBranch == ~position_open

MACDRowSignal(k, action) == [timestamp |-> k, price |-> Close(k), action |-> action]

InitMACD ==
    /\ pc = "scan"
    /\ bars \in MACDSeries
    /\ params \in [fast_period : MACDSpans, slow_period : MACDSpans,
                   signal_period : MACDSpans, histogram_threshold : MACDThresholds]
    /\ MACDValid(params)
    /\ i = 2
    /\ signals = <<>>
    /\ position_open = FALSE
    /\ stop_loss = NoStop
    /\ IdleBacktester

\* One iteration of "for i in range(1, len(df))"; close holds no NaN, so neither
\* do the MACD and signal lines.
MACDRow ==
    /\ pc = "scan"
    /\ i <= Len(bars)
    /\ IF MACDFlatBranch
         THEN IF MACDBullish(i)
                THEN /\ signals' = Append(signals, MACDRowSignal(i, "BUY"))
                     /\ position_open' = TRUE
                ELSE UNCHANGED <<signals, position_open>>
       ELSE IF MACDBearish(i)
         THEN /\ signals' = Append(signals, MACDRowSignal(i, "SELL"))
              /\ position_open' = FALSE
       ELSE UNCHANGED <<signals, position_open>>
    /\ i' = i + 1
    /\ UNCHANGED <<pc, bars, params, stop_loss>>
    /\ UNCHANGED stratVars

NextMACD == MACDRow \/ ScanReturn

SpecMACD == InitMACD /\ [][NextMACD]_vars

(***************************************************************************)
(* Backtester                                                              *)
(***************************************************************************)
BTMaxBars == 3
MaxSignals == 3
MaxRuns == 2
DefaultCapital == 10000

InitialCapitals == {DefaultCapital}

BTSeries ==
    {[k \in 1..Len(cs) |-> FlatBar(cs[k])] : cs \in SeqsUpTo(ScanPrices, BTMaxBars)}

\* What strategy.generate_signals(data) may return: a chronologically ordered list
\* of signals on bars of the series, each priced at its bar's close.  Several
\* signals may share a bar and the actions need not alternate.
Chronological(s) == \A k \in 1..(Len(s) - 1) : s[k].timestamp <= s[k + 1].timestamp

SignalLists(b) ==
    {s \in SeqsUpTo([timestamp : 1..Len(b), action : {"BUY", "SELL"}], MaxSignals) :
        Chronological(s)}

WithPrice(b, s) ==
    [k \in 1..Len(s) |->
        [timestamp |-> s[k].timestamp, price |-> b[s[k].timestamp].close,
         action |-> s[k].action]]

\* [s for s in signals if s['timestamp'] == current_time]
AtBar(s, t) == s.timestamp = t
SignalsAt(t) == SelectSeq(signals, LAMBDA s : AtBar(s, t))

\* signal['action'] == 'BUY' and position == 0
CanEnter_Always(sg) == sg.action = "BUY"
CanEnter(sg) == sg.action = "BUY" /\ position = RZero

\* signal['action'] == 'SELL' and position > 0
CanExit_Always(sg) == sg.action = "SELL"
CanExit(sg) == sg.action = "SELL" /\ RLt(RZero, position)

\* position = capital / current_price
EntrySize(px) == RDiv(capital, R(px))

\* portfolio_value = position * current_price
PositionValue(px) == RMul(position, R(px))

\* capital = portfolio_value (the exit's)
CapitalAfterExit_Kept(px) == capital
CapitalAfterExit(px) == PositionValue(px)

\* (current_price - entry_price) * position
ExitPnl_FromZero(px) == RMul(R(px), position)
ExitPnl_PerUnit(px) == R(px - entry_price)
ExitPnl(px) == RMul(R(px - entry_price), position)

EntryTrade(t, px) ==
    [type |-> "ENTRY", time |-> t, price |-> px,
     portfolio_value |-> RMul(EntrySize(px), R(px)), size |-> EntrySize(px)]

ExitTrade(t, px) ==
    [type |-> "EXIT", time |-> t, price |-> px,
     portfolio_value |-> PositionValue(px), size |-> position, pnl |-> ExitPnl(px)]

\* current_value = capital if position == 0 else position * current_price
CurrentValue_Cash(px) == capital
CurrentValue(px) == IF position = RZero THEN capital ELSE PositionValue(px)

Snapshot_Stale(t, px) == [timestamp |-> t - 1, value |-> CurrentValue(px)]
Snapshot(t, px) == [timestamp |-> t, value |-> CurrentValue(px)]

\* Backtester(strategy, initial_capital): empty logs.  params stands for the
\* strategy: the list its generate_signals returns on bars.
InitBT ==
    /\ pc = "idle"
    /\ bars \in BTSeries
    /\ \E s \in SignalLists(bars) : params = [strategy_signals |-> WithPrice(bars, s)]
    /\ initial_capital \in InitialCapitals
    /\ i = 1
    /\ signals = <<>>
    /\ position_open = FALSE
    /\ stop_loss = NoStop
    /\ capital = RZero
    /\ position = RZero
    /\ entry_price = 0
    /\ current_signals = <<>>
    /\ trades = <<>>
    /\ portfolio_value = <<>>
    /\ runs = 0
    /\ base = <<0, 0>>
    /\ returned = <<>>

btFixed == <<params, initial_capital, position_open, stop_loss>>

\* The data argument of a later run() on the instance: the series again, or an
\* empty one.
RunData == {bars, <<>>}

\* strategy.generate_signals(data): no rows, no signals.
StrategySignals(data) == IF data = <<>> THEN <<>> ELSE params.strategy_signals

\* run(data) up to the loop: the strategy's signals and the tracking variables.
\* The logs of earlier runs on the instance stay.
BTRun_ClearsLogs ==
    /\ pc \in {"idle", "done"}
    /\ runs < MaxRuns
    /\ runs' = runs + 1
    /\ bars' \in RunData
    /\ signals' = StrategySignals(bars')
    /\ capital' = R(initial_capital)
    /\ position' = RZero
    /\ entry_price' = 0
    /\ i' = 1
    /\ current_signals' = <<>>
    /\ base' = <<0, 0>>
    /\ pc' = "bar"
    /\ trades' = <<>>
    /\ portfolio_value' = <<>>
    /\ UNCHANGED returned
    /\ UNCHANGED btFixed

BTRun ==
    /\ pc \in {"idle", "done"}
    /\ runs < MaxRuns
    /\ runs' = runs + 1
    /\ bars' \in RunData
    /\ signals' = StrategySignals(bars')
    /\ capital' = R(initial_capital)
    /\ position' = RZero
    /\ entry_price' = 0
    /\ i' = 1
    /\ current_signals' = <<>>
    /\ base' = <<Len(trades), Len(portfolio_value)>>
    /\ pc' = "bar"
    /\ UNCHANGED <<trades, portfolio_value, returned>>
    /\ UNCHANGED btFixed

\* Top of "for i in range(len(data))": the signals at the current bar.
BTBar ==
    /\ pc = "bar"
    /\ i <= Len(bars)
    /\ current_signals' = SignalsAt(i)
    /\ pc' = "signals"
    /\ UNCHANGED <<bars, signals, i, capital, position, entry_price, trades,
                   portfolio_value, runs, base, returned>>
    /\ UNCHANGED btFixed

\* One iteration of "for signal in current_signals".
BTApplySignal ==
    /\ pc = "signals"
    /\ current_signals # <<>>
    /\ LET sg == Head(current_signals)
           px == Close(i)
       IN  IF CanEnter(sg)
             THEN /\ position' = EntrySize(px)
                  /\ entry_price' = px
                  /\ trades' = Append(trades, EntryTrade(i, px))
                  /\ UNCHANGED capital
           ELSE IF CanExit(sg)
             THEN /\ capital' = CapitalAfterExit(px)
                  /\ trades' = Append(trades, ExitTrade(i, px))
                  /\ position' = RZero
                  /\ UNCHANGED entry_price
           ELSE UNCHANGED <<capital, position, entry_price, trades>>
    /\ current_signals' = Tail(current_signals)
    /\ UNCHANGED <<bars, pc, signals, i, portfolio_value, runs, base, returned>>
    /\ UNCHANGED btFixed

\* After the bar's signals: track the portfolio value; next bar.
BTSnapshot ==
    /\ pc = "signals"
    /\ current_signals = <<>>
    /\ portfolio_value' = Append(portfolio_value, Snapshot(i, Close(i)))
    /\ i' = i + 1
    /\ pc' = "bar"
    /\ UNCHANGED <<bars, signals, capital, position, entry_price, current_signals,
                   trades, runs, base, returned>>
    /\ UNCHANGED btFixed

(***************************************************************************)
(* Backtester.calculate_metrics, over the instance's whole logs.           *)
(***************************************************************************)
Value(k) == portfolio_value[k].value

\* pct_change(): NaN in the first row, value / previous value - 1 from row 2 on.
\* Portfolio values are positive, so every later row is a number.
Returns(k) == RSub(RDiv(Value(k), Value(k - 1)), R(1))

\* risk_free_rate / 252 with risk_free_rate = 0.02
DailyRiskFree == <<1, 12600>>

\* (value.iloc[-1] - initial_capital) / initial_capital, times 100
TotalReturn ==
    RMul(RDiv(RSub(Value(Len(portfolio_value)), R(initial_capital)), R(initial_capital)),
         R(100))

RECURSIVE SumReturns(_)
SumReturns(k) == IF k < 2 THEN RZero ELSE RAdd(Returns(k), SumReturns(k - 1))

\* excess_returns.mean(): the NaN of the first row is skipped, so the mean is over
\* the rows 2..n.  Defined for n >= 2.
MeanExcess ==
    RSub(RDiv(SumReturns(Len(portfolio_value)), R(Len(portfolio_value) - 1)),
         DailyRiskFree)

\* excess_returns.std() is the sample deviation (ddof = 1) of the non-NaN rows:
\* NaN with fewer than two of them, 0 exactly when they are all equal.
StdIsNaN == Len(portfolio_value) - 1 < 2
StdIsZero ==
    /\ ~StdIsNaN
    /\ \A k \in 3..Len(portfolio_value) : Returns(k) = Returns(2)

Sign(r) == IF r[1] < 0 THEN -1 ELSE IF r[1] > 0 THEN 1 ELSE 0

\* A float result: a number (of which the model keeps the sign: the magnitude
\* sqrt(252) * mean / std is irrational), NaN, or an infinity with its sign.
Num(sign) == [kind |-> "num", sign |-> sign]
NaN == [kind |-> "nan", sign |-> 0]
Inf(sign) == [kind |-> "inf", sign |-> sign]

\* len(excess_returns) > 1: the length counts the rows, the NaN first row included.
SharpeGuard == Len(portfolio_value) > 1

\* np.sqrt(252) * excess_returns.mean() / excess_returns.std() if ... else 0
\* (numpy floats: x / NaN = NaN, 0 / 0 = NaN, x / 0 = +-inf).
SharpeRatio ==
    IF ~SharpeGuard THEN Num(0)
    ELSE IF StdIsNaN THEN NaN
    ELSE IF StdIsZero
      THEN IF Sign(MeanExcess) = 0 THEN NaN ELSE Inf(Sign(MeanExcess))
    ELSE Num(Sign(MeanExcess))

RMax(a, b) == IF RLt(a, b) THEN b ELSE a

\* value.cummax()
RECURSIVE CumMax(_)
CumMax(k) == IF k = 1 THEN Value(1) ELSE RMax(CumMax(k - 1), Value(k))

\* (cummax - value) / cummax
Drawdown(k) == RDiv(RSub(CumMax(k), Value(k)), CumMax(k))

\* drawdown.max(), times 100
RECURSIVE MaxDrawdownUpTo(_)
MaxDrawdownUpTo(k) ==
    IF k = 1 THEN Drawdown(1) ELSE RMax(MaxDrawdownUpTo(k - 1), Drawdown(k))

MaxDrawdown == RMul(MaxDrawdownUpTo(Len(portfolio_value)), R(100))

\* t.get('pnl') is not None: only EXIT trades carry a pnl.
HasPnl(t) == "pnl" \in DOMAIN t

\* len([t for t in self.trades if t.get('pnl', 0) > 0])
ProfitableTrades ==
    Cardinality({k \in 1..Len(trades) : HasPnl(trades[k]) /\ RLt(RZero, trades[k].pnl)})

\* len([t for t in self.trades if t.get('pnl') is not None])
TotalTrades_AllRows == Len(trades)
TotalTrades == Cardinality({k \in 1..Len(trades) : HasPnl(trades[k])})

\* profitable_trades / total_trades if total_trades > 0 else 0, times 100
WinRate ==
    IF TotalTrades > 0 THEN RMul(RDiv(R(ProfitableTrades), R(TotalTrades)), R(100))
    ELSE RZero

\* An exception leaving calculate_metrics instead of a metrics dict.
Raised(error) == [raised |-> TRUE, error |-> error]

\* The dict returned when "not self.portfolio_value".
EmptyMetrics_Unguarded == Raised("IndexError")
EmptyMetrics ==
    [raised |-> FALSE, total_return |-> RZero, sharpe_ratio |-> Num(0),
     max_drawdown |-> RZero, win_rate |-> RZero, total_trades |-> 0]

CalculateMetrics ==
    IF portfolio_value = <<>> THEN EmptyMetrics
    ELSE [raised |-> FALSE, total_return |-> TotalReturn,
          sharpe_ratio |-> SharpeRatio, max_drawdown |-> MaxDrawdown,
          win_rate |-> WinRate, total_trades |-> TotalTrades]

\* return self.calculate_metrics()
BTReturn ==
    /\ pc = "bar"
    /\ i > Len(bars)
    /\ pc' = "done"
    /\ returned' = Append(returned, CalculateMetrics)
    /\ UNCHANGED <<bars, signals, i, capital, position, entry_price, current_signals,
                   trades, portfolio_value, runs, base>>
    /\ UNCHANGED btFixed

NextBT == BTRun \/ BTBar \/ BTApplySignal \/ BTSnapshot \/ BTReturn

SpecBT == InitBT /\ [][NextBT]_vars

\* The trades and snapshots appended by the current run.
RunTrades == SubSeq(trades, base[1] + 1, Len(trades))
RunSnapshots == SubSeq(portfolio_value, base[2] + 1, Len(portfolio_value))

CountType(ledger, type) == Cardinality({k \in 1..Len(ledger) : ledger[k].type = type})

\* ENTRY trades directly followed by their EXIT.
RoundTrips(ledger) ==
    Cardinality({k \in 1..(Len(ledger) - 1) :
                    ledger[k].type = "ENTRY" /\ ledger[k + 1].type = "EXIT"})

(***************************************************************************)
(* CombinedStrategy                                                        *)
(***************************************************************************)
CombinedMaxBars == 2

\* Numbers of sub-strategies of the combined strategies explored.
StrategyCounts == {2, 3}

\* Prices play no part in the combination; bar k closes at k.
CombinedSeries == {[k \in 1..n |-> FlatBar(k)] : n \in 0..CombinedMaxBars}

\* What sub-strategy j does at a bar: nothing, or one signal.
Fires == {"none", "BUY", "SELL"}

\* strategy.generate_signals(data) of sub-strategy j, which fires f[t] at bar t: at
\* most one signal per bar, in bar order, priced at the close.  The indicator text
\* of sub-strategy j is <<j>>.
RECURSIVE SubStrategySignals(_, _, _, _)
SubStrategySignals(b, f, j, k) ==
    IF k = 0 THEN <<>>
    ELSE IF f[k] = "none" THEN SubStrategySignals(b, f, j, k - 1)
    ELSE Append(SubStrategySignals(b, f, j, k - 1),
                [timestamp |-> k, price |-> b[k].close, action |-> f[k],
                 indicator |-> <<j>>])

\* combination_method.upper()
Upper(method) ==
    CASE method = "and" -> "AND"
      [] method = "And" -> "AND"
      [] method = "or" -> "OR"
      [] method = "xor" -> "XOR"
      [] OTHER -> method

\* {signal['timestamp']: signal for signal in signals}: a later signal of the
\* list replaces an earlier one with the same timestamp.
HasTimestamp(list, t) == \E k \in 1..Len(list) : list[k].timestamp = t
SignalOf(list, t) ==
    list[CHOOSE k \in 1..Len(list) :
            /\ list[k].timestamp = t
            /\ \A m \in (k + 1)..Len(list) : list[m].timestamp # t]

\* set().union(*(s.keys() for s in strategy_signals))
TimestampSet ==
    {t \in 1..Len(bars) :
        \E j \in 1..Len(params.strategies) : HasTimestamp(params.strategies[j], t)}

\* sorted(...)
RECURSIVE Sorted_Descending(_)
Sorted_Descending(S) ==
    IF S = {} THEN <<>>
    ELSE LET greatest == CHOOSE x \in S : \A y \in S : x >= y
         IN  <<greatest>> \o Sorted_Descending(S \ {greatest})

RECURSIVE Sorted(_)
Sorted(S) ==
    IF S = {} THEN <<>>
    ELSE LET least == CHOOSE x \in S : \A y \in S : x <= y
         IN  <<least>> \o Sorted(S \ {least})

all_timestamps == Sorted(TimestampSet)

\* signals_at_timestamp: the signals at t, in the order of self.strategies.
RECURSIVE SignalsAtTimestamp(_, _)
SignalsAtTimestamp(t, n) ==
    IF n = 0 THEN <<>>
    ELSE IF HasTimestamp(params.strategies[n], t)
      THEN Append(SignalsAtTimestamp(t, n - 1), SignalOf(params.strategies[n], t))
    ELSE SignalsAtTimestamp(t, n - 1)

\* len(signals_at_timestamp) == len(self.strategies)
AllFired(sat) == Len(sat) = Len(params.strategies)

\* len(set(s['action'] for s in signals_at_timestamp)) == 1
ActionsAgree_Ignored(sat) == TRUE
ActionsAgree(sat) == Cardinality({sat[k].action : k \in 1..Len(sat)}) = 1

\* ' | '.join(s['indicator'] for s in signals_at_timestamp)
RECURSIVE JoinIndicators(_)
JoinIndicators(sat) ==
    IF sat = <<>> THEN <<>> ELSE Head(sat).indicator \o JoinIndicators(Tail(sat))

\* signals_at_timestamp[0].copy() with the joined indicator
TakenSignal_Last(sat) == sat[Len(sat)]
TakenSignal(sat) == sat[1]

CombinedSignal(sat) ==
    [timestamp |-> TakenSignal(sat).timestamp, price |-> TakenSignal(sat).price,
     action |-> TakenSignal(sat).action, indicator |-> JoinIndicators(sat)]

\* A validated CombinedStrategy (at least two sub-strategies, the method stored
\* in upper case) at the start of generate_signals(bars).  params.strategies
\* holds what each sub-strategy's generate_signals returns on bars.
InitCombined ==
    /\ pc = "scan"
    /\ bars \in CombinedSeries
    /\ \E n \in StrategyCounts :
         \E f \in [1..n -> [1..Len(bars) -> Fires]] :
           \E method \in {"AND", "OR"} :
             params = [strategies |->
                          [j \in 1..n |-> SubStrategySignals(bars, f[j], j, Len(bars))],
                       combination_method |-> method]
    /\ i = 1
    /\ signals = <<>>
    /\ position_open = FALSE
    /\ stop_loss = NoStop
    /\ IdleBacktester

\* One iteration of "for timestamp in all_timestamps"; i counts the timestamps.
CombinedRow ==
    /\ pc = "scan"
    /\ i <= Len(all_timestamps)
    /\ LET sat == SignalsAtTimestamp(all_timestamps[i], Len(params.strategies))
       IN  IF params.combination_method = "AND"
             THEN IF AllFired(sat) /\ ActionsAgree(sat)
                    THEN signals' = Append(signals, CombinedSignal(sat))
                    ELSE UNCHANGED signals
           ELSE signals' = Append(signals, CombinedSignal(sat))
    /\ i' = i + 1
    /\ UNCHANGED <<pc, bars, params, position_open, stop_loss>>
    /\ UNCHANGED stratVars

\* return combined_signals
CombinedReturn ==
    /\ pc = "scan"
    /\ i > Len(all_timestamps)
    /\ pc' = "done"
    /\ returned' = Append(returned, signals)
    /\ UNCHANGED <<bars, params, i, signals, position_open, stop_loss>>
    /\ UNCHANGED btVars

NextCombined == CombinedRow \/ CombinedReturn

SpecCombined == InitCombined /\ [][NextCombined]_vars

(***************************************************************************)
(* generate_signals called repeatedly on one instance and one series, for  *)
(* every strategy class.                                                   *)
(***************************************************************************)
MaxCalls == 2
RepeatMaxBars == 3

\* The class of the instance, told by the attributes it holds.
IsMA == "short_window" \in DOMAIN params
IsRSI == "oversold" \in DOMAIN params
IsBB == "std_dev" \in DOMAIN params
IsMACD == "fast_period" \in DOMAIN params
IsCombined == "strategies" \in DOMAIN params

InitRepeat ==
    /\ InitMA \/ InitRSI \/ InitBB \/ InitMACD \/ InitCombined
    /\ Len(bars) <= RepeatMaxBars

\* The first row the scan visits: range(1, len(df)) for MACD, range(len(df)) or
\* every row otherwise.
FirstRow == IF IsMACD THEN 2 ELSE 1

\* Entry of the next generate_signals(data) call: df = data.copy() and the
\* call's own locals, signals = [], position_open = False, stop_loss = None.
ScanAgain_KeepsPosition ==
    /\ pc = "done"
    /\ Len(returned) < MaxCalls
    /\ pc' = "scan"
    /\ i' = FirstRow
    /\ signals' = <<>>
    /\ UNCHANGED <<bars, params, returned, position_open, stop_loss>>
    /\ UNCHANGED btVars

ScanAgain ==
    /\ pc = "done"
    /\ Len(returned) < MaxCalls
    /\ pc' = "scan"
    /\ i' = FirstRow
    /\ signals' = <<>>
    /\ position_open' = FALSE
    /\ stop_loss' = NoStop
    /\ UNCHANGED <<bars, params, returned>>
    /\ UNCHANGED btVars

NextRepeat ==
    \/ IsMA /\ MARow
    \/ IsRSI /\ RSIRow
    \/ IsBB /\ BBRow
    \/ IsMACD /\ MACDRow
    \/ ~IsCombined /\ ScanReturn
    \/ IsCombined /\ CombinedRow
    \/ IsCombined /\ CombinedReturn
    \/ ScanAgain

SpecRepeat == InitRepeat /\ [][NextRepeat]_vars

(***************************************************************************)
(* calculate_metrics(data) of the strategy classes: the same body in every *)
(* class, run on what the instance's generate_signals(data) returns.       *)
(***************************************************************************)
MetricsMaxBars == 4

\* position = None
NoPosition == [held |-> FALSE, price |-> 0]

\* position = signals[i]['price']
PositionAt(price) == [held |-> TRUE, price |-> price]

\* "and position": None and a zero price are both false.
Truthy(position_) == position_.held /\ position_.price # 0

\* (signals[i]['price'] - position) / position * 100
SignalReturn(price, position_) ==
    RMul(RDiv(R(price - position_), R(position_)), R(100))

\* range(len(signals)-1): the indices the loop visits, 1-based.
LoopRange_All(sigs) == 1..Len(sigs)

LoopRange(sigs) == 1..(Len(sigs) - 1)

\* The loop's locals after its first n iterations.
RECURSIVE MetricsLoop(_, _)
MetricsLoop(sigs, n) ==
    IF n = 0 \/ n \notin LoopRange(sigs) THEN [position |-> NoPosition, returns |-> <<>>]
    ELSE LET before == MetricsLoop(sigs, n - 1)
         IN  IF sigs[n].action = "BUY"
               THEN [before EXCEPT !.position = PositionAt(sigs[n].price)]
             ELSE IF sigs[n].action = "SELL" /\ Truthy(before.position)
               THEN [position |-> NoPosition,
                     returns |-> Append(before.returns,
                                        SignalReturn(sigs[n].price, before.position.price))]
             ELSE before

\* returns when the loop ends.
StrategyReturns(sigs) ==
    LET last == CHOOSE n \in 0..Len(sigs) :
                    /\ n = 0 \/ n \in LoopRange(sigs)
                    /\ n + 1 \notin LoopRange(sigs)
    IN  MetricsLoop(sigs, last).returns

\* sum(returns)
RECURSIVE SumOf(_, _)
SumOf(rs, n) == IF n = 0 THEN RZero ELSE RAdd(SumOf(rs, n - 1), rs[n])

\* len([r for r in returns if r > 0])
PositiveCount(rs) == Cardinality({k \in 1..Len(rs) : RLt(RZero, rs[k])})

ZeroStrategyMetrics == [total_returns |-> RZero, win_rate |-> RZero, avg_return |-> RZero]

\* The dictionary calculate_metrics returns for the signals generated.
StrategyMetrics(sigs) ==
    IF sigs = <<>> THEN ZeroStrategyMetrics
    ELSE LET rs == StrategyReturns(sigs)
         IN  [total_returns |-> SumOf(rs, Len(rs)),
              win_rate |-> IF rs # <<>> THEN RDiv(R(PositiveCount(rs)), R(Len(rs))) ELSE RZero,
              avg_return |-> IF rs # <<>> THEN RDiv(SumOf(rs, Len(rs)), R(Len(rs))) ELSE RZero]

InitMetrics ==
    /\ InitMA \/ InitRSI \/ InitBB \/ InitMACD \/ InitCombined
    /\ Len(bars) <= MetricsMaxBars

\* signals = self.generate_signals(data) has returned; the rest of the body.
MetricsReturn ==
    /\ pc = "scan"
    /\ IF IsCombined THEN i > Len(all_timestamps) ELSE i > Len(bars)
    /\ pc' = "done"
    /\ returned' = Append(returned, StrategyMetrics(signals))
    /\ UNCHANGED <<bars, params, i, signals, position_open, stop_loss>>
    /\ UNCHANGED btVars

NextMetrics ==
    \/ IsMA /\ MARow
    \/ IsRSI /\ RSIRow
    \/ IsBB /\ BBRow
    \/ IsMACD /\ MACDRow
    \/ IsCombined /\ CombinedRow
    \/ MetricsReturn

SpecMetrics == InitMetrics /\ [][NextMetrics]_vars

(***************************************************************************)
(* Construction of the strategies: __init__ and validate_parameters.       *)
(* An argument is a Python value: an int, a float or a str.                *)
(***************************************************************************)
MaxPeriodArg == 3

IntArg(n) == [type |-> "int", v |-> <<n, 1>>]
FloatArg(r) == [type |-> "float", v |-> r]
StrArg == [type |-> "str", v |-> <<0, 1>>]

PeriodArgs ==
    {IntArg(n) : n \in -1..MaxPeriodArg}
        \cup {FloatArg(<<2, 1>>), FloatArg(<<3, 2>>), FloatArg(<<-1, 2>>), StrArg}

NumberArgs == {IntArg(0), IntArg(2), FloatArg(<<1, 2>>), FloatArg(<<-1, 2>>), StrArg}

\* Lengths of the strategies list and spellings of the method handed to
\* CombinedStrategy.
StrategyListLengths == {0, 1, 2, 3}
MethodArgs == {"AND", "OR", "and", "or", "And", "XOR", "xor", ""}

ConstructorArgs ==
    [class : {"MACrossoverStrategy"}, short_window : PeriodArgs, long_window : PeriodArgs]
    \cup [class : {"RSIStrategy"}, period : PeriodArgs,
          overbought : {IntArg(RSIDefaultOverbought)}, oversold : {IntArg(RSIDefaultOversold)}]
    \cup [class : {"BollingerBandsStrategy"}, period : PeriodArgs, std_dev : NumberArgs,
          use_atr_exits : {TRUE}, atr_period : PeriodArgs, atr_multiplier : NumberArgs]
    \cup [class : {"MACDStrategy"}, fast_period : PeriodArgs, slow_period : PeriodArgs,
          signal_period : PeriodArgs, histogram_threshold : NumberArgs]
    \cup [class : {"CombinedStrategy"},
          strategies : {[j \in 1..n |-> "strategy"] : n \in StrategyListLengths},
          combination_method : MethodArgs]

\* isinstance(x, int); isinstance(x, (int, float))
IsInt(a) == a.type = "int"
IsNumber(a) == a.type \in {"int", "float"}

\* x > 0 and x <= 0 on numbers
Positive(a) == RLt(RZero, a.v)

\* The outcome of a constructor call: the instance with its attributes, or the
\* exception raised.
Instance(attributes) == [raised |-> FALSE, instance |-> attributes]
ConstructionError(error) == [raised |-> TRUE, error |-> error]

\* MACrossoverStrategy.__init__ and RSIStrategy.__init__ store their arguments.
MAInit(a) == Instance([short_window |-> a.short_window, long_window |-> a.long_window])
RSIInit(a) ==
    Instance([period |-> a.period, overbought |-> a.overbought, oversold |-> a.oversold])

\* BollingerBandsStrategy.validate_parameters; comparing a str with 0 raises
\* TypeError.
BBValidate(a) ==
    IF ~IsInt(a.period) \/ ~IsInt(a.atr_period) THEN "ValueError"
    ELSE IF ~Positive(a.period) \/ ~Positive(a.atr_period) THEN "ValueError"
    ELSE IF ~IsNumber(a.std_dev) THEN "TypeError"
    ELSE IF ~Positive(a.std_dev) THEN "ValueError"
    ELSE IF ~IsNumber(a.atr_multiplier) THEN "TypeError"
    ELSE IF ~Positive(a.atr_multiplier) THEN "ValueError"
    ELSE "ok"

BBInit(a) ==
    IF BBValidate(a) # "ok" THEN ConstructionError(BBValidate(a))
    ELSE Instance([period |-> a.period, std_dev |-> a.std_dev,
                   use_atr_exits |-> a.use_atr_exits, atr_period |-> a.atr_period,
                   atr_multiplier |-> a.atr_multiplier])

\* fast_period >= slow_period
FastNotBelowSlow_Unchecked(a) == FALSE
FastNotBelowSlow(a) == ~RLt(a.fast_period.v, a.slow_period.v)

\* MACDStrategy.validate_parameters
MACDValidate(a) ==
    IF ~(IsInt(a.fast_period) /\ IsInt(a.slow_period) /\ IsInt(a.signal_period))
      THEN "ValueError"
    ELSE IF ~(Positive(a.fast_period) /\ Positive(a.slow_period) /\ Positive(a.signal_period))
      THEN "ValueError"
    ELSE IF FastNotBelowSlow(a) THEN "ValueError"
    ELSE IF ~IsNumber(a.histogram_threshold) THEN "ValueError"
    ELSE "ok"

MACDInit(a) ==
    IF MACDValidate(a) # "ok" THEN ConstructionError(MACDValidate(a))
    ELSE Instance([fast_period |-> a.fast_period, slow_period |-> a.slow_period,
                   signal_period |-> a.signal_period,
                   histogram_threshold |-> a.histogram_threshold])

\* not strategies or len(strategies) < 2
TooFewStrategies_EmptyOnly(strategies) == strategies = <<>>
TooFewStrategies(strategies) == strategies = <<>> \/ Len(strategies) < 2

\* CombinedStrategy.validate_parameters
CombinedValidate(a) ==
    IF TooFewStrategies(a.strategies) THEN "ValueError"
    ELSE IF Upper(a.combination_method) \notin {"AND", "OR"} THEN "ValueError"
    ELSE "ok"

CombinedInit(a) ==
    IF CombinedValidate(a) # "ok" THEN ConstructionError(CombinedValidate(a))
    ELSE Instance([strategies |-> a.strategies,
                   combination_method |-> Upper(a.combination_method)])

\* A constructor call about to be made with the arguments params.
InitConstruct ==
    /\ pc = "new"
    /\ params \in ConstructorArgs
    /\ bars = <<>>
    /\ i = 1
    /\ signals = <<>>
    /\ position_open = FALSE
    /\ stop_loss = NoStop
    /\ IdleBacktester

constructFixed == <<bars, params, i, signals, position_open, stop_loss>>

Constructed(outcome) ==
    /\ pc' = IF outcome.raised THEN "raised" ELSE "constructed"
    /\ returned' = Append(returned, outcome)
    /\ UNCHANGED constructFixed
    /\ UNCHANGED btVars

ConstructMA ==
    /\ pc = "new" /\ params.class = "MACrossoverStrategy"
    /\ Constructed(MAInit(params))

ConstructRSI ==
    /\ pc = "new" /\ params.class = "RSIStrategy"
    /\ Constructed(RSIInit(params))

ConstructBB ==
    /\ pc = "new" /\ params.class = "BollingerBandsStrategy"
    /\ Constructed(BBInit(params))

ConstructMACD ==
    /\ pc = "new" /\ params.class = "MACDStrategy"
    /\ Constructed(MACDInit(params))

ConstructCombined ==
    /\ pc = "new" /\ params.class = "CombinedStrategy"
    /\ Constructed(CombinedInit(params))

NextConstruct ==
    ConstructMA \/ ConstructRSI \/ ConstructBB \/ ConstructMACD \/ ConstructCombined

SpecConstruct == InitConstruct /\ [][NextConstruct]_vars

(***************************************************************************)
(* Shapes of a signal list.                                                *)
(***************************************************************************)
StartsWithBuy(s) == Len(s) > 0 => s[1].action = "BUY"
NoRepeat(s) == \A k \in 1..(Len(s) - 1) : s[k].action # s[k + 1].action
Alternates(s) == StartsWithBuy(s) /\ NoRepeat(s)

\* C1: the MA-Crossover signal list strictly alternates BUY/SELL and, when
\* non-empty, starts with BUY.
C1_MAAlternates == Alternates(signals)

\* C2: the RSI signal list strictly alternates BUY/SELL and, when non-empty,
\* starts with BUY.
C2_RSIAlternates == Alternates(signals)

\* C3: the Bollinger-Bands signal list strictly alternates BUY/SELL and, when
\* non-empty, starts with BUY, with ATR exits enabled or not; the list's last
\* action always mirrors the scan's position flag.
C3_BBAlternates ==
    /\ Alternates(signals)
    /\ position_open <=> (Len(signals) > 0 /\ signals[Len(signals)].action = "BUY")

\* C4: the MACD signal list strictly alternates BUY/SELL and, when non-empty,
\* starts with BUY; the list's last action always mirrors the scan's position flag.
C4_MACDAlternates ==
    /\ Alternates(signals)
    /\ position_open <=> (Len(signals) > 0 /\ signals[Len(signals)].action = "BUY")

\* C4 witness: a finished MACD scan that bought, sold and bought again.
C4_Witness ==
    /\ pc = "done"
    /\ Len(signals) >= 3
    /\ params.histogram_threshold # <<0, 1>>

\* C3 witness: a finished scan with ATR exits that bought, sold on the stop and
\* bought again.
C3_Witness ==
    /\ pc = "done"
    /\ params.use_atr_exits
    /\ Len(signals) >= 3
    /\ signals[2].indicator = "Stop Loss"

\* C5: the MA-Crossover scan emits no signal at a bar where the short or the long
\* SMA is still undefined.
C5_NoSignalInWarmup ==
    \A k \in 1..Len(signals) :
        /\ RollingDefined(params.short_window, signals[k].timestamp)
        /\ RollingDefined(params.long_window, signals[k].timestamp)

ConstantClose == \A k \in 1..Len(bars) : Close(k) = Close(1)

\* C6: on a series of constant close, of any length, the finished MA-Crossover
\* scan has returned no signal.
C6_FlatSeriesNoSignal == (pc = "done" /\ ConstantClose) => signals = <<>>

\* The effect claimed of one step of the signal loop.
C7_Applied ==
    LET sg == Head(current_signals)
        px == bars[i].close
    IN  /\ current_signals' = Tail(current_signals)
        /\ (sg.action = "BUY" /\ position = RZero) =>
              /\ Len(trades') = Len(trades) + 1
              /\ LET t == trades'[Len(trades')]
                 IN  /\ t.type = "ENTRY" /\ t.time = i /\ t.price = px
                     /\ t.size = RDiv(capital, R(px))
                     /\ position' = t.size
                     /\ entry_price' = px
        /\ (sg.action = "SELL" /\ position # RZero) =>
              /\ Len(trades') = Len(trades) + 1
              /\ LET t == trades'[Len(trades')]
                 IN  /\ t.type = "EXIT" /\ t.time = i /\ t.price = px
                     /\ t.size = position
                     /\ t.pnl = RMul(RSub(R(px), R(entry_price)), position)
                     /\ position' = RZero

C7_InListOrder ==
    /\ (pc = "bar" /\ pc' = "signals") =>
          current_signals' = SelectSeq(signals, LAMBDA s : s.timestamp = i)
    /\ (pc = "signals" /\ pc' = "bar") => current_signals = <<>>

\* C7: the signals at the current bar are applied in list order; a BUY while
\* flat sets size = capital / close and appends an ENTRY at the bar's close with
\* that size; a SELL while holding appends an EXIT at the bar's close with
\* pnl = (exit close - entry close) * size and returns the position to flat.
C7_SignalsApplied ==
    [][/\ C7_InListOrder
       /\ (pc = "signals" /\ current_signals # <<>>) => C7_Applied]_vars

\* C7 witness: a finished run with a losing or winning EXIT, on a stream that
\* holds a SELL and then a BUY at the same bar.
C7_Witness ==
    /\ pc = "done"
    /\ \E k \in 1..Len(trades) : trades[k].type = "EXIT" /\ trades[k].pnl # RZero
    /\ \E k \in 1..(Len(signals) - 1) :
          /\ signals[k].timestamp = signals[k + 1].timestamp
          /\ signals[k].action = "SELL" /\ signals[k + 1].action = "BUY"

LedgerBalanced(ledger) ==
    /\ CountType(ledger, "ENTRY") - CountType(ledger, "EXIT") \in {0, 1}
    /\ CountType(ledger, "EXIT") = RoundTrips(ledger)

\* C8 as stated: the position is never short, and the whole trade ledger has
\* 0 <= #ENTRY - #EXIT <= 1 with as many EXITs as completed round trips.

C8_LedgerBalanced == ~RLt(position, RZero) /\ LedgerBalanced(trades)

\* C8, amended: the position is never short, and the trades appended by the
\* current run have 0 <= #ENTRY - #EXIT <= 1 with as many EXITs as completed
\* round trips; the run is long exactly when that difference is 1.
C8_RunLedgerBalanced ==
    /\ ~RLt(position, RZero)
    /\ LedgerBalanced(RunTrades)
    /\ RLt(RZero, position) <=>
          CountType(RunTrades, "ENTRY") - CountType(RunTrades, "EXIT") = 1

\* C8 witness: a run that completed a round trip and entered again.
C8_Witness ==
    /\ pc = "done"
    /\ CountType(RunTrades, "EXIT") = 1
    /\ CountType(RunTrades, "ENTRY") = 2

\* The latest EXIT of a ledger that holds one.
LastExit(ledger) ==
    ledger[CHOOSE k \in 1..Len(ledger) :
              /\ ledger[k].type = "EXIT"
              /\ \A m \in (k + 1)..Len(ledger) : ledger[m].type # "EXIT"]

\* C9: once the current run has an EXIT trade, idle capital equals the size
\* liquidated by its latest EXIT times that exit bar's close, which is the
\* portfolio_value recorded in that trade.
C9_CapitalAfterExit ==
    CountType(RunTrades, "EXIT") > 0 =>
        /\ capital = RMul(LastExit(RunTrades).size, R(bars[LastExit(RunTrades).time].close))
        /\ capital = LastExit(RunTrades).portfolio_value

\* C9 witness: right after an EXIT at a price other than the entry's.
C9_Witness ==
    /\ pc = "signals"
    /\ Len(RunTrades) > 0
    /\ RunTrades[Len(RunTrades)].type = "EXIT"
    /\ RunTrades[Len(RunTrades)].pnl # RZero
    /\ position = RZero

\* C10: each run appends exactly one snapshot per bar, in bar order, the k-th
\* appended snapshot carrying the k-th bar's timestamp, signal or no signal.
C10_SnapshotPerBar ==
    pc \in {"bar", "signals", "done"} =>
        /\ Len(RunSnapshots) = i - 1
        /\ \A k \in 1..Len(RunSnapshots) : RunSnapshots[k].timestamp = k
        /\ pc = "done" => Len(RunSnapshots) = Len(bars)

\* C10 witness: a finished second run over bars with and without signals.
C10_Witness ==
    /\ pc = "done"
    /\ runs = 2
    /\ Len(bars) >= 2
    /\ \E k \in 1..Len(bars) : SignalsAt(k) = <<>>
    /\ \E k \in 1..Len(bars) : SignalsAt(k) # <<>>

(***************************************************************************)
(* The metrics dict returned by the latest completed run.                  *)
(***************************************************************************)
LastReturned == returned[Len(returned)]

ZeroMetrics(m) ==
    /\ ~m.raised
    /\ m.total_return = RZero
    /\ m.sharpe_ratio = Num(0)
    /\ m.max_drawdown = RZero
    /\ m.win_rate = RZero
    /\ m.total_trades = 0

\* C11 (as stated): a run on an empty bar series returns total_return,
\* sharpe_ratio, max_drawdown, win_rate and total_trades all 0 and raises nothing.
C11_EmptySeriesZeroMetrics ==
    (pc = "done" /\ bars = <<>>) => ZeroMetrics(LastReturned)

\* C11 (amended): a run on an empty bar series, on an instance whose logs were
\* empty when the run started, returns all five metrics 0 and raises nothing.
C11_EmptyLogsZeroMetrics ==
    (pc = "done" /\ bars = <<>> /\ base = <<0, 0>>) => ZeroMetrics(LastReturned)

\* An instance run twice on an empty series.
C11_Witness ==
    /\ pc = "done"
    /\ bars = <<>>
    /\ runs = 2
    /\ base = <<0, 0>>
    /\ ZeroMetrics(LastReturned)

\* The per-bar returns of the portfolio log, two bars or more, are all equal.
ZeroVarianceReturns ==
    /\ Len(portfolio_value) >= 2
    /\ \A k \in 2..Len(portfolio_value) : Returns(k) = Returns(2)

\* C12: when the per-bar returns have zero variance (for example no signal over
\* two or more bars) the returned sharpe_ratio is the number 0, never NaN or an
\* infinity.
C12_ZeroVarianceSharpeZero ==
    (pc = "done" /\ ZeroVarianceReturns) => LastReturned.sharpe_ratio = Num(0)

\* C13: sharpe_ratio is 0 whenever fewer than two return observations exist,
\* that is for every series of at most two bars (run on an instance with empty
\* logs).
C13_FewObservationsSharpeZero ==
    (pc = "done" /\ base = <<0, 0>> /\ Len(bars) <= 2)
        => LastReturned.sharpe_ratio = Num(0)

\* EXIT trades of the ledger, and those of them with a positive pnl.
ExitRows == {k \in 1..Len(trades) : trades[k].type = "EXIT"}
WinningExitRows == {k \in ExitRows : RLt(RZero, trades[k].pnl)}

\* C16: after a run, total_trades is the number of EXIT trades of the ledger and
\* win_rate is 100 * (EXIT trades with pnl > 0) / (EXIT trades), 0 when there is
\* no EXIT trade; ENTRY trades and a position still open are not counted.
C16_WinRateOverExits ==
    pc = "done" =>
        /\ ~LastReturned.raised
        /\ LastReturned.total_trades = Cardinality(ExitRows)
        /\ LastReturned.win_rate =
              IF ExitRows = {} THEN RZero
              ELSE RDiv(R(100 * Cardinality(WinningExitRows)), R(Cardinality(ExitRows)))

\* A run with a winning round trip that ends with a position open.
C16_Witness ==
    /\ pc = "done"
    /\ RLt(RZero, position)
    /\ Cardinality(ExitRows) = 1
    /\ Len(trades) = 3
    /\ LastReturned.total_trades = 1
    /\ LastReturned.win_rate = R(100)

(***************************************************************************)
(* The combined list against the sub-strategies' lists.                    *)
(***************************************************************************)
SubStrategies == 1..Len(params.strategies)
FiredAt(j, t) == \E k \in 1..Len(params.strategies[j]) : params.strategies[j][k].timestamp = t
FiredSignal(j, t) == SignalOf(params.strategies[j], t)
EmittedAt(t) == {k \in 1..Len(signals) : signals[k].timestamp = t}

\* Signal sg carries the timestamp, price and action of sub-strategy j's signal at t.
CarriesSignalOf(sg, j, t) ==
    /\ sg.timestamp = FiredSignal(j, t).timestamp
    /\ sg.price = FiredSignal(j, t).price
    /\ sg.action = FiredSignal(j, t).action

AllAgreeAt(t) ==
    /\ \A j \in SubStrategies : FiredAt(j, t)
    /\ \A j \in SubStrategies : FiredSignal(j, t).action = FiredSignal(1, t).action

\* C14: under AND the combined list has a signal at timestamp t iff every
\* sub-strategy emitted a signal at t and all those signals have the same action;
\* that signal is the only one at t and carries the first sub-strategy's
\* timestamp, price and action.  Sub-strategies that never agree give an empty list.
C14_AndEmitsOnAgreement ==
    (pc = "done" /\ params.combination_method = "AND") =>
        \A t \in 1..Len(bars) :
            /\ Cardinality(EmittedAt(t)) = IF AllAgreeAt(t) THEN 1 ELSE 0
            /\ \A k \in EmittedAt(t) : CarriesSignalOf(signals[k], 1, t)

\* Three sub-strategies that agree at one bar and all fire, but disagree, at another.
C14_Witness ==
    /\ pc = "done"
    /\ params.combination_method = "AND"
    /\ Len(params.strategies) = 3
    /\ Len(signals) = 1
    /\ \E t \in 1..Len(bars) : AllAgreeAt(t) /\ EmittedAt(t) # {}
    /\ \E t \in 1..Len(bars) :
          /\ \A j \in SubStrategies : FiredAt(j, t)
          /\ ~AllAgreeAt(t)
          /\ EmittedAt(t) = {}

LowestFired(t) == CHOOSE j \in SubStrategies :
                      FiredAt(j, t) /\ \A m \in 1..(j - 1) : ~FiredAt(m, t)

\* C15: under OR the combined list has exactly one signal at every timestamp
\* where at least one sub-strategy fired and none elsewhere; its action and price
\* are those of the lowest-indexed sub-strategy that fired there, even when a
\* later sub-strategy fired the opposite action.
C15_OrTakesFirst ==
    (pc = "done" /\ params.combination_method = "OR") =>
        \A t \in 1..Len(bars) :
            IF \E j \in SubStrategies : FiredAt(j, t)
              THEN /\ Cardinality(EmittedAt(t)) = 1
                   /\ \A k \in EmittedAt(t) : CarriesSignalOf(signals[k], LowestFired(t), t)
            ELSE EmittedAt(t) = {}

\* The first sub-strategy is silent at a bar where the second fires BUY and the
\* third SELL: the combined signal is the second's BUY.
C15_Witness ==
    /\ pc = "done"
    /\ params.combination_method = "OR"
    /\ Len(params.strategies) = 3
    /\ \E t \in 1..Len(bars) :
          /\ ~FiredAt(1, t)
          /\ FiredAt(2, t) /\ FiredSignal(2, t).action = "BUY"
          /\ FiredAt(3, t) /\ FiredSignal(3, t).action = "SELL"
          /\ \E k \in EmittedAt(t) : signals[k].action = "BUY" /\ signals[k].indicator = <<2, 3>>
    /\ \E t \in 1..Len(bars) : EmittedAt(t) = {}

\* C17: calling generate_signals twice on the same instance and the same series
\* returns the same list (same length, timestamps, actions and prices) both
\* times, for every strategy class, and no call changes the input series.
C17_RepeatedCallsAgree ==
    [][/\ bars' = bars
       /\ \A k \in 1..Len(returned') : returned'[k] = returned'[1]]_vars

\* A Bollinger scan that returned a list ending long, and the same list again.
C17_Witness ==
    /\ IsBB
    /\ pc = "done"
    /\ Len(returned) = 2
    /\ returned[1] = returned[2]
    /\ returned[2] # <<>>
    /\ position_open

(***************************************************************************)
(* Constructor outcomes against the arguments.                             *)
(***************************************************************************)
PeriodArgsOf(a) ==
    CASE a.class = "MACrossoverStrategy" -> {a.short_window, a.long_window}
      [] a.class = "RSIStrategy" -> {a.period}
      [] a.class = "BollingerBandsStrategy" -> {a.period, a.atr_period}
      [] a.class = "MACDStrategy" -> {a.fast_period, a.slow_period, a.signal_period}
      [] OTHER -> {}

NonPositiveNumber(a) == a.type \in {"int", "float"} /\ a.v[1] <= 0
PositiveInteger(a) == a.type = "int" /\ a.v[1] > 0

\* C18: constructing any strategy with a non-positive period (window) parameter
\* fails with a configuration error at construction.
C18_NonPositivePeriodRejected ==
    (pc # "new" /\ \E a \in PeriodArgsOf(params) : NonPositiveNumber(a))
        => (pc = "raised" /\ LastReturned.raised)

\* C19 (as stated): constructing a CombinedStrategy fails when fewer than two
\* sub-strategies are supplied or when the method is not AND or OR, and then no
\* instance is produced; with two or more and method AND or OR it succeeds.
C19_CombinedValidation ==
    (pc # "new" /\ params.class = "CombinedStrategy") =>
        LET bad == Len(params.strategies) < 2
                      \/ params.combination_method \notin {"AND", "OR"}
        IN  /\ bad => (pc = "raised" /\ LastReturned.raised)
            /\ ~bad => (pc = "constructed" /\ ~LastReturned.raised)

\* The spellings of AND and OR, whatever the case of the letters.
AnyCaseAndOr == {"AND", "and", "And", "OR", "or"}

\* C19 (amended): the method is compared without regard to case.  Construction
\* fails, producing no instance, when fewer than two sub-strategies are supplied or
\* the method is not AND or OR in any case; otherwise it succeeds and the instance
\* holds the method in upper case.
C19_CombinedValidationAnyCase ==
    (pc # "new" /\ params.class = "CombinedStrategy") =>
        LET bad == Len(params.strategies) < 2
                      \/ params.combination_method \notin AnyCaseAndOr
        IN  /\ bad => (pc = "raised" /\ LastReturned.raised)
            /\ ~bad => /\ pc = "constructed"
                       /\ ~LastReturned.raised
                       /\ LastReturned.instance.combination_method \in {"AND", "OR"}
                       /\ LastReturned.instance.strategies = params.strategies

\* Two sub-strategies and the method spelled "or": constructed, method OR.
C19_Witness ==
    /\ pc = "constructed"
    /\ params.class = "CombinedStrategy"
    /\ Len(params.strategies) = 2
    /\ params.combination_method = "or"
    /\ LastReturned.instance.combination_method = "OR"

\* C20: constructing a MACDStrategy fails when a period is not a positive
\* integer, when the fast period is not below the slow period, or when the
\* threshold is not a number, and succeeds otherwise.
C20_MACDValidation ==
    (pc # "new" /\ params.class = "MACDStrategy") =>
        LET bad == \/ \E a \in PeriodArgsOf(params) : ~PositiveInteger(a)
                   \/ params.fast_period.v[1] * params.slow_period.v[2]
                        >= params.slow_period.v[1] * params.fast_period.v[2]
                   \/ params.histogram_threshold.type = "str"
        IN  /\ bad => (pc = "raised" /\ LastReturned.raised)
            /\ ~bad => (pc = "constructed" /\ ~LastReturned.raised)

\* Valid integer periods with fast = slow: rejected.
C20_Witness ==
    /\ pc = "raised"
    /\ params.class = "MACDStrategy"
    /\ \A a \in PeriodArgsOf(params) : PositiveInteger(a)
    /\ params.fast_period = params.slow_period
    /\ params.histogram_threshold.type = "float"
    /\ LastReturned.raised

(***************************************************************************)
(* The logs of an instance across its runs.                                *)
(***************************************************************************)
IsPrefix(a, b) == Len(a) <= Len(b) /\ SubSeq(b, 1, Len(a)) = a

\* C21: run never clears the trade ledger or the portfolio log, so each log
\* after a later run is the earlier runs' entries followed by that run's, and
\* the metrics a run returns are computed over the trades and snapshots of all
\* the runs so far: total_trades counts the EXIT trades of the whole ledger,
\* total_return reads the last snapshot of the whole log and the Sharpe guard
\* counts the snapshots of the whole log.
C21_LogsAccumulate ==
    [][/\ IsPrefix(trades, trades')
       /\ IsPrefix(portfolio_value, portfolio_value')
       /\ (pc # "done" /\ pc' = "done") =>
             /\ Len(portfolio_value') = 1 => LastReturned'.sharpe_ratio = Num(0)
             /\ Len(portfolio_value') = 2 => LastReturned'.sharpe_ratio = NaN
             /\ LastReturned'.total_trades = Cardinality(ExitRows')
             /\ portfolio_value' # <<>> =>
                   LastReturned'.total_return =
                       RMul(RDiv(RSub(portfolio_value'[Len(portfolio_value')].value,
                                      R(initial_capital)),
                                 R(initial_capital)),
                            R(100))]_vars

\* A second run on the same series, each run closing one round trip: the ledger
\* doubled and total_trades went from 1 to 2.
C21_Witness ==
    /\ pc = "done"
    /\ runs = 2
    /\ base[1] > 0
    /\ Len(trades) = 2 * base[1]
    /\ Len(portfolio_value) = 2 * base[2]
    /\ returned[1].total_trades = 1
    /\ LastReturned.total_trades = 2

(***************************************************************************)
(* Snapshot values, ignored signals and the capital of a run.              *)
(***************************************************************************)
\* The run is flat once bar t is done: as many ENTRY as EXIT trades up to t.
FlatAfterBar(t) ==
    Cardinality({k \in 1..Len(RunTrades) :
                    RunTrades[k].type = "ENTRY" /\ RunTrades[k].time <= t})
      = Cardinality({k \in 1..Len(RunTrades) :
                        RunTrades[k].type = "EXIT" /\ RunTrades[k].time <= t})

EnteredAtBar(t) ==
    /\ Len(RunTrades) > 0
    /\ RunTrades[Len(RunTrades)].type = "ENTRY"
    /\ RunTrades[Len(RunTrades)].time = t

\* C25: the snapshot appended for a bar has value = idle capital if the position
\* is flat after the bar's signals and size * the bar's close otherwise; so at an
\* ENTRY bar the value is the capital held before the entry, and the value is
\* the same at consecutive flat bars.
C25_SnapshotValue ==
    [][/\ (pc = "signals" /\ pc' = "bar") =>
             LET snap == portfolio_value'[Len(portfolio_value')]
             IN  /\ Len(portfolio_value') = Len(portfolio_value) + 1
                 /\ snap.value = IF position = RZero THEN capital
                                 ELSE RMul(position, R(bars[i].close))
                 /\ EnteredAtBar(i) => snap.value = capital
       /\ \A k \in 1..(Len(RunSnapshots) - 1) :
             (FlatAfterBar(k) /\ FlatAfterBar(k + 1))
                 => RunSnapshots[k].value = RunSnapshots[k + 1].value]_vars

\* Long at the end of a bar whose close differs from the entry price: the last
\* snapshot is marked to market and differs from the idle capital.
C25_Witness ==
    /\ pc = "bar"
    /\ i > 2
    /\ RLt(RZero, position)
    /\ entry_price # bars[i - 1].close
    /\ RunSnapshots[i - 1].value = RMul(position, R(bars[i - 1].close))
    /\ RunSnapshots[i - 1].value # capital
    /\ RunSnapshots[i - 2].value = capital

StartsWithEntry(ledger) == Len(ledger) > 0 => ledger[1].type = "ENTRY"
TypesAlternate(ledger) == \A k \in 1..(Len(ledger) - 1) : ledger[k].type # ledger[k + 1].type
OrderedByTime(ledger) == \A k \in 1..(Len(ledger) - 1) : ledger[k].time <= ledger[k + 1].time

\* C27: a BUY received while holding and a SELL received while flat append no
\* trade and leave capital, size and entry price unchanged; so for any signal
\* stream the ledger of a fresh Backtester alternates ENTRY, EXIT, ENTRY, ...
\* from an ENTRY on and is ordered by time.
C27_IgnoredSignals ==
    [][/\ (pc = "signals" /\ current_signals # <<>>) =>
             LET sg == Head(current_signals)
             IN  ((sg.action = "BUY" /\ RLt(RZero, position))
                     \/ (sg.action = "SELL" /\ position = RZero))
                   => UNCHANGED <<trades, capital, position, entry_price>>
       /\ base = <<0, 0>> =>
             /\ StartsWithEntry(trades)
             /\ TypesAlternate(trades)
             /\ OrderedByTime(trades)]_vars

\* A stream SELL, BUY, BUY on three bars: only the first BUY traded.
C27_Witness ==
    /\ pc = "done"
    /\ runs = 1
    /\ Len(signals) = 3
    /\ signals[1].action = "SELL" /\ signals[1].timestamp = 1
    /\ signals[2].action = "BUY" /\ signals[2].timestamp = 2
    /\ signals[3].action = "BUY" /\ signals[3].timestamp = 3
    /\ Len(trades) = 1
    /\ trades[1].type = "ENTRY" /\ trades[1].time = 2

RECURSIVE SumPnl(_, _)
SumPnl(ledger, k) ==
    IF k = 0 THEN RZero
    ELSE IF ledger[k].type = "EXIT" THEN RAdd(ledger[k].pnl, SumPnl(ledger, k - 1))
    ELSE SumPnl(ledger, k - 1)

Emits(action) ==
    /\ Len(signals') = Len(signals) + 1
    /\ SubSeq(signals', 1, Len(signals)) = signals
    /\ signals'[Len(signals')].action = action
    /\ signals'[Len(signals')].timestamp = i
    /\ signals'[Len(signals')].price = bars[i].close

BBRowStep == pc = "scan" /\ i <= Len(bars) /\ i' = i + 1

\* close < stop_loss: False when the stop is None or NaN.
CloseBelowStop == stop_loss.kind = "num" /\ RLt(R(bars[i].close), stop_loss.v)

\* The first bar before the scan's row with defined bands and close < lower band.
EntryBars == {k \in 1..(i - 1) : ~BandsNaN(k) /\ BelowLower(k)}

\* C22: at a bar with defined bands a BUY is emitted iff the scan is Flat and
\* close < lower band, a SELL iff the scan is Open and (close > upper band, or
\* ATR exits are enabled and close < the stop_loss recorded at entry); a bar with
\* undefined bands emits nothing; so the first BUY is at the first defined-band
\* bar with close < lower band, priced at its close.
C22_BBEntryExit ==
    [][/\ BBRowStep =>
             /\ BandsNaN(i) => signals' = signals
             /\ ~BandsNaN(i) =>
                   /\ Emits("BUY") <=> (~position_open /\ BelowLower(i))
                   /\ Emits("SELL") <=>
                         /\ position_open
                         /\ AboveUpper(i) \/ (params.use_atr_exits /\ CloseBelowStop)
                   /\ signals' # signals => (Emits("BUY") \/ Emits("SELL"))
       /\ pc = "scan" =>
             /\ signals # <<>> <=> EntryBars # {}
             /\ signals # <<>> =>
                   /\ signals[1].action = "BUY"
                   /\ signals[1].timestamp \in EntryBars
                   /\ \A k \in EntryBars : signals[1].timestamp <= k
                   /\ signals[1].price = bars[signals[1].timestamp].close]_vars

\* A scan that bought below the lower band after a bar with defined bands and no
\* entry, and sold on the stop-loss.
C22_Witness ==
    /\ pc = "done"
    /\ params.use_atr_exits
    /\ Len(signals) >= 2
    /\ signals[1].action = "BUY"
    /\ signals[1].timestamp > params.period
    /\ \E k \in 1..Len(signals) : signals[k].action = "SELL" /\ signals[k].indicator = "Stop Loss"

\* The entry bar of the open position: the bar of the latest signal, a BUY.
EntryBar == signals[Len(signals)].timestamp

\* C30: with ATR exits enabled the stop-loss level is set only at entry, stays
\* unchanged while the position is Open and is cleared on exit; when the ATR is
\* undefined at the entry bar (the entry comes before atr_period bars, which
\* needs atr_period > period) the stop-loss exit never fires for that position:
\* it closes only through the upper-band exit.
C30_StopLossLifecycle ==
    [][/\ (BBRowStep /\ params.use_atr_exits) =>
             /\ stop_loss' # stop_loss => (Emits("BUY") \/ Emits("SELL"))
             /\ Emits("BUY") =>
                   stop_loss' = IF i < params.atr_period THEN NaNStop
                                ELSE StopAt(RSub(R(bars[i].close),
                                                 RMul(ATR(i), params.atr_multiplier)))
             /\ (position_open /\ position_open') => stop_loss' = stop_loss
             /\ Emits("SELL") => stop_loss' = NoStop
             /\ (position_open /\ EntryBar < params.atr_period) =>
                   /\ params.atr_period > params.period
                   /\ ~CloseBelowStop
                   /\ Emits("SELL") => AboveUpper(i)
       /\ (pc = "scan" /\ ~position_open) => stop_loss = NoStop]_vars

\* An entry before the ATR window is full, held over a bar closing below the
\* entry's close, and closed by the upper band.
C30_Witness ==
    /\ pc = "done"
    /\ params.use_atr_exits
    /\ params.atr_period > params.period
    /\ Len(signals) >= 2
    /\ signals[1].action = "BUY"
    /\ signals[1].timestamp < params.atr_period
    /\ signals[2].action = "SELL"
    /\ signals[2].indicator = "Upper Band"
    /\ \E k \in (signals[1].timestamp + 1)..(signals[2].timestamp - 1) :
          bars[k].close < bars[signals[1].timestamp].close

(***************************************************************************)
(* The MACD scan, row by row.                                              *)
(***************************************************************************)
MACDRowStep == pc = "scan" /\ i <= Len(bars) /\ i' = i + 1

\* C23: at each bar after the first a BUY is emitted iff the scan is Flat,
\* histogram[i-1] < -threshold, histogram[i] >= -threshold and macd_line[i] >
\* signal_line[i]; a SELL iff the scan is Open, histogram[i-1] > threshold,
\* histogram[i] <= threshold and macd_line[i] < signal_line[i].  The first bar
\* never emits and each bar emits at most one signal.
C23_MACDEntryExit ==
    [][/\ MACDRowStep =>
             LET thr == params.histogram_threshold
             IN  /\ i >= 2
                 /\ Emits("BUY") <=>
                       /\ ~position_open
                       /\ RLt(Histogram(i - 1), RNeg(thr))
                       /\ ~RLt(Histogram(i), RNeg(thr))
                       /\ RLt(SignalLine(i), MACDLine(i))
                 /\ Emits("SELL") <=>
                       /\ position_open
                       /\ RLt(thr, Histogram(i - 1))
                       /\ ~RLt(thr, Histogram(i))
                       /\ RLt(MACDLine(i), SignalLine(i))
                 /\ signals' # signals => (Emits("BUY") \/ Emits("SELL"))
       /\ \A k \in 1..Len(signals) : signals[k].timestamp >= 2
       /\ \A k \in 1..(Len(signals) - 1) : signals[k].timestamp < signals[k + 1].timestamp]_vars

\* A scan with a BUY and a later SELL, and a bar where the histogram crossed up
\* through -threshold with the MACD line not above the signal line.
C23_Witness ==
    /\ pc = "done"
    /\ Len(signals) >= 2
    /\ signals[1].action = "BUY"
    /\ signals[2].action = "SELL"
    /\ \E k \in 2..Len(bars) :
          /\ RLt(Histogram(k - 1), RNeg(params.histogram_threshold))
          /\ ~RLt(Histogram(k), RNeg(params.histogram_threshold))
          /\ ~RLt(SignalLine(k), MACDLine(k))

\* C24: the RSI scan emits BUY only at a bar whose RSI is below oversold and
\* SELL only at a bar whose RSI is above overbought; a bar whose RSI lies between
\* the two levels or is undefined emits no signal.
C24_RSISignalsAtThresholds ==
    \A k \in 1..Len(signals) :
        /\ signals[k].action = "BUY" => RSIBelow(signals[k].timestamp, params.oversold)
        /\ signals[k].action = "SELL" => RSIAbove(signals[k].timestamp, params.overbought)

\* C26: every signal returned by generate_signals of any strategy class, the
\* combined one included, has the timestamp of an input bar and that bar's close
\* as price, and the list is in strictly increasing timestamp order: at most one
\* signal per bar.
C26_SignalsOnBarsInOrder ==
    /\ \A k \in 1..Len(signals) :
          /\ signals[k].timestamp \in 1..Len(bars)
          /\ signals[k].price = bars[signals[k].timestamp].close
    /\ \A k \in 1..(Len(signals) - 1) : signals[k].timestamp < signals[k + 1].timestamp

\* A combined strategy under OR that returned a signal at each of two bars.
C26_Witness ==
    /\ IsCombined
    /\ params.combination_method = "OR"
    /\ pc = "done"
    /\ Len(signals) = 2
    /\ returned[1] = signals

\* The SELL signals that close a round trip among the signals the loop may
\* count: a SELL, not the last signal of the list, with a BUY before it and no
\* SELL between that BUY and it.
CompletedPairs(sigs) ==
    {k \in 1..(Len(sigs) - 1) :
        /\ sigs[k].action = "SELL"
        /\ \E j \in 1..(k - 1) :
              /\ sigs[j].action = "BUY"
              /\ \A l \in (j + 1)..(k - 1) : sigs[l].action # "SELL"}

\* C29: calculate_metrics of a strategy never processes the last generated
\* signal: the signals BUY, SELL alone give total_returns, win_rate and
\* avg_return 0, and the number of returns counted is the number of
\* BUY-then-SELL pairs completed among the signals before the last.
C29_LastSignalNotCounted ==
    pc = "done" =>
        /\ Len(StrategyReturns(signals)) = Cardinality(CompletedPairs(signals))
        /\ (Len(signals) = 2 /\ signals[1].action = "BUY" /\ signals[2].action = "SELL") =>
              LastReturned = ZeroStrategyMetrics
        /\ LastReturned = StrategyMetrics(signals)

\* calculate_metrics has returned for a generated list that is one BUY followed
\* by one SELL at a different price.
C29_Witness ==
    /\ pc = "done"
    /\ Len(signals) = 2
    /\ signals[1].action = "BUY"
    /\ signals[2].action = "SELL"
    /\ signals[2].price # signals[1].price
    /\ LastReturned = ZeroStrategyMetrics


====
